---- MODULE Spec2Model ----
(***************************************************************************)
(* Model of the batched log-persistence pipeline of the PostgreSQL Winston *)
(* transport (src/unnamed/part_011, i.e. lib/logger/postgres-transport.ts): *)
(* log() -> transformLogInfo -> addToBatch -> flush -> db.insert, with the *)
(* per-record fallback of retryIndividualInserts, the periodic timer,      *)
(* close() and the process shutdown hooks.                                  *)
(*                                                                         *)
(* JavaScript runs each handler to completion: one action of the model is  *)
(* one handler from its entry up to its return or its first await.  The    *)
(* store call made by `await db.insert(...)` is issued inside the action   *)
(* that reaches it and resolved by a later action (BulkResolve or          *)
(* SingleResolve), with an outcome the store chooses.                      *)
(***************************************************************************)
EXTENDS Integers, Sequences, FiniteSets, TLC

\* ---------------------------------------------------------------- bounds
MaxLogs == 3            \* number of log() calls in one behaviour
MaxCloses == 2          \* consecutive close() calls are counted up to this number
MaxFacadeCalls == 1     \* number of calls to the logging facade in one behaviour

\* ------------------------------------------------------------- constants
DefaultBatchSize == 10  \* opts.batchSize || 10

\* values of the constructor option batchSize that are explored; 0 stands
\* for "not given" (undefined and 0 are both falsy in `opts.batchSize || 10`)
BatchSizeOpts == {0, 1, 2, 3}

\* a field that is absent from the raw event
Undefined == "undefined"

LevelInputs == {Undefined, "", "info"}
MessageInputs == {Undefined, "", "m"}

\* The optional string fields of LogInfo are sequences of characters, so that
\* their length and their characters can be inspected; NoValue is the absent
\* field (no string has a character "undefined").
NoValue == <<"undefined">>

\* a string of n characters
Str(n) == [i \in 1..n |-> "x"]

\* the rest of the raw event (`...meta`): no further key, a JSON-safe object,
\* an object that JSON changes (undefined values, Dates), a circular object
MetaInputs == {"none", "plain", "lossy", "circular"}

\* the optional fields of a record other than meta
OptionalFields ==
    {"requestId", "userId", "sessionId", "ipAddress", "userAgent", "method", "url",
     "statusCode", "responseTime", "stack", "errorCode", "version"}

\* a raw event that carries only level and message
BareEvent(l, m) ==
    [level |-> l, message |-> m, timestamp |-> Undefined, environment |-> Undefined,
     service |-> Undefined, meta |-> "none", requestId |-> NoValue,
     userId |-> NoValue, sessionId |-> NoValue, ipAddress |-> NoValue,
     userAgent |-> NoValue, method |-> NoValue, url |-> NoValue,
     statusCode |-> NoValue, responseTime |-> NoValue, stack |-> NoValue,
     errorCode |-> NoValue, version |-> NoValue]

\* the raw events handed to log() in the pipeline specification: the LogInfo
\* interface, restricted to the two required fields
RawEvents == {BareEvent(l, m) : l \in LevelInputs, m \in MessageInputs}

VARIABLES
    events,         \* the raw events the callers of log() pass in this run
    batchSize,      \* this.batchSize
    logBatch,       \* this.logBatch: the buffer, a sequence of records
    timerActive,    \* the setInterval of startFlushTimer has not been cleared
    cleanCloses,    \* number of close() calls since the last log() call
    flushes,        \* every flush cycle started so far, in drain order
    store,          \* the logs table: record id -> number of rows holding it
    failedRecords,  \* record id -> number of "Failed to insert individual
                    \* log record" reports
    validationErrors, \* number of error events emitted by log()
    calls,          \* number of log() calls made so far
    accepted,       \* history: ids of the records log() has buffered, in order
    callbacks,      \* number of invocations of the callback passed to log()
    logThrows,      \* number of log() calls that threw to their caller
    nodeEnv,        \* process.env.NODE_ENV
    logLevelEnv,    \* process.env.LOG_LEVEL
    edgeEndpoint,   \* process.env.EDGE_LOG_ENDPOINT is set
    facadeCalls,    \* number of calls made to the logging facade
    lastCall,       \* the last call made to the logging facade
    edgeOut,        \* what the edge logger has written: console lines, POSTs
    rows,           \* the logs table as DELETE /api/logs sees it
    purge,          \* the last DELETE /api/logs request and its response
    clock,          \* Date.now(), in milliseconds
    records,        \* rate-limit.ts: the Map identifier -> { count, expires }
    rateOpts,       \* the options the callers of checkRateLimit pass
    rateCalls,      \* history: the checkRateLimit calls made, with their results
    requests,       \* number of requests the middleware has handled
    response,       \* how the middleware answered the last request
    cache,          \* localStorage["portfolio-content-mobilebert"]
    hook,           \* the state of the mounted useDynamicContent hook
    fetches         \* number of fetches of /api/generate-content issued

\* the variables of the transport
transportVars ==
    <<events, batchSize, logBatch, timerActive, cleanCloses, flushes, store,
      failedRecords, validationErrors, calls, accepted, callbacks, logThrows>>

\* the process environment, which no handler changes
envVars == <<nodeEnv, logLevelEnv, edgeEndpoint>>

\* the variables of the logging facade (lib/logger/index.ts, edge logger)
facadeVars == <<facadeCalls, lastCall, edgeOut>>

\* the variables of the log management route
purgeVars == <<rows, purge>>

\* the variables of the rate limiter
rateVars == <<records, rateOpts, rateCalls>>

\* the variables of the middleware
middlewareVars == <<requests, response>>

\* the variables of the useDynamicContent hook
hookVars == <<cache, hook, fetches>>

\* the variables of the web site around the logger
siteVars == <<clock, rateVars, middlewareVars, hookVars>>

vars == <<transportVars, envVars, facadeVars, purgeVars, siteVars>>

\* ----------------------------------------------------------- helpers
\* JavaScript truthiness of an optional string field: undefined and "" are falsy
Falsy(v) == v = Undefined \/ v = ""

\* the same for a field held as a sequence of characters
FalsyStr(v) == v = NoValue \/ v = << >>

Ids(recs) == [i \in DOMAIN recs |-> recs[i].id]

Range(s) == {s[i] : i \in DOMAIN s}

RecordIds == 1..MaxLogs

\* constructor: this.batchSize = opts.batchSize || 10
NormBatchSize(opt) == IF opt = 0 THEN DefaultBatchSize ELSE opt

\* ----------------------------------------------------------- validation
MaxSessionIdLen == 255
MaxMethodLen == 10
MaxStatusCodeLen == 5
MaxResponseTimeLen == 20
MaxErrorCodeLen == 50
MaxVersionLen == 50

Digits == {"0", "1", "2", "3", "4", "5", "6", "7", "8", "9"}

\* [0-9a-f] under the i flag
HexChars == Digits \cup {"a", "b", "c", "d", "e", "f", "A", "B", "C", "D", "E", "F"}

\* isValidUUID without the version and variant character classes
isValidUUID_AnyHex(uuid) ==
    /\ Len(uuid) = 36
    /\ \A i \in 1..36 :
          IF i \in {9, 14, 19, 24} THEN uuid[i] = "-" ELSE uuid[i] \in HexChars

\* isValidUUID: the anchored regular expression
\* /^[0-9a-f]{8}-[0-9a-f]{4}-[1-5][0-9a-f]{3}-[89ab][0-9a-f]{3}-[0-9a-f]{12}$/i
isValidUUID(uuid) ==
    /\ Len(uuid) = 36
    /\ \A i \in 1..36 :
          IF i \in {9, 14, 19, 24} THEN uuid[i] = "-"
          ELSE IF i = 15 THEN uuid[i] \in {"1", "2", "3", "4", "5"}
          ELSE IF i = 20 THEN uuid[i] \in {"8", "9", "a", "b", "A", "B"}
          ELSE uuid[i] \in HexChars

\* `if (requestId && this.isValidUUID(requestId)) logRecord.requestId = requestId`
KeepIfUuid(v) == IF ~FalsyStr(v) /\ isValidUUID(v) THEN v ELSE NoValue

\* a length check that cuts the value down to the limit
KeepIfShort_Truncate(v, limit) ==
    IF FalsyStr(v) THEN NoValue
    ELSE IF Len(v) <= limit THEN v ELSE SubSeq(v, 1, limit)

\* a length check that is off by one
KeepIfShort_OffByOne(v, limit) ==
    IF ~FalsyStr(v) /\ Len(v) <= limit + 1 THEN v ELSE NoValue

\* `if (method && String(method).length <= 10) logRecord.method = String(method)`
KeepIfShort(v, limit) == IF ~FalsyStr(v) /\ Len(v) <= limit THEN v ELSE NoValue

\* a stack that is cut to the length of an error code
KeepIfPresent_Capped(v) ==
    IF FalsyStr(v) THEN NoValue
    ELSE IF Len(v) <= MaxErrorCodeLen THEN v ELSE SubSeq(v, 1, MaxErrorCodeLen)

\* `if (stack) logRecord.stack = String(stack)`
KeepIfPresent(v) == IF ~FalsyStr(v) THEN v ELSE NoValue

\* a round trip that never throws and hands a circular object back
JsonRoundTrip_NoThrow(meta) ==
    IF meta = "lossy" THEN [thrown |-> FALSE, value |-> "lossy-as-json"]
    ELSE [thrown |-> FALSE, value |-> meta]

\* `JSON.parse(JSON.stringify(meta))`: a JSON-safe object comes back equal, an
\* object with undefined values or Dates comes back changed, a circular
\* object makes JSON.stringify throw
JsonRoundTrip(meta) ==
    IF meta = "circular" THEN [thrown |-> TRUE, value |-> Undefined]
    ELSE IF meta = "lossy" THEN [thrown |-> FALSE, value |-> "lossy-as-json"]
    ELSE [thrown |-> FALSE, value |-> meta]

\* the meta field of the record: set only when the rest of the raw event has
\* keys and the round trip succeeds
RecordMeta(meta) ==
    IF meta = "none" \/ JsonRoundTrip(meta).thrown
    THEN Undefined
    ELSE JsonRoundTrip(meta).value

\* the three instants a record's timestamp can hold besides a parsed one: the
\* `now` of transformLogInfo, the `new Date()` of flush(), and the Invalid Date
\* that `new Date(text)` returns for a text it cannot parse
CreationTime == "now-at-log"
FlushTime == "now-at-flush"
InvalidDate == "Invalid Date"

\* the timestamp texts that `new Date(text)` can parse
ParseableDates == {"2024-05-01T10:00:00.000Z"}

\* `new Date(timestamp)`: the instant the text denotes, or an Invalid Date
NewDate(text) == IF text \in ParseableDates THEN text ELSE InvalidDate

\* `timestamp ? new Date(timestamp) : now`
RecordTimestamp(timestamp) ==
    IF Falsy(timestamp) THEN CreationTime ELSE NewDate(timestamp)

\* `environment || process.env.NODE_ENV || "development"`
RecordEnvironment(environment, env) ==
    IF ~Falsy(environment) THEN environment
    ELSE IF ~Falsy(env) THEN env
    ELSE "development"

\* a service that is always the default, whatever the raw event says
RecordService_Fixed(service) == "nextjs-app"

\* `service || "nextjs-app"`
RecordService(service) == IF ~Falsy(service) THEN service ELSE "nextjs-app"

\* `if (!level || !message) throw new Error(...)`
RequiredMissing(info) == Falsy(info.level) \/ Falsy(info.message)

\* the record transformLogInfo builds once the required fields are there.
\* `id` (the ordinal of the log() call) is a ghost field that identifies the
\* record in the histories.
BuildRecord(info, id, env) ==
    [id |-> id,
     level |-> info.level,
     message |-> info.message,
     timestamp |-> RecordTimestamp(info.timestamp),
     environment |-> RecordEnvironment(info.environment, env),
     service |-> RecordService(info.service),
     meta |-> RecordMeta(info.meta),
     requestId |-> KeepIfUuid(info.requestId),
     userId |-> KeepIfUuid(info.userId),
     sessionId |-> KeepIfShort(info.sessionId, MaxSessionIdLen),
     ipAddress |-> KeepIfPresent(info.ipAddress),
     userAgent |-> KeepIfPresent(info.userAgent),
     method |-> KeepIfShort(info.method, MaxMethodLen),
     url |-> KeepIfPresent(info.url),
     statusCode |-> KeepIfShort(info.statusCode, MaxStatusCodeLen),
     responseTime |-> KeepIfShort(info.responseTime, MaxResponseTimeLen),
     stack |-> KeepIfPresent(info.stack),
     errorCode |-> KeepIfShort(info.errorCode, MaxErrorCodeLen),
     version |-> KeepIfShort(info.version, MaxVersionLen)]

\* what transformLogInfo returns when it throws
NoRecord == [thrown |-> TRUE]

\* transformLogInfo with `if (!level)` in place of `if (!level || !message)`
transformLogInfo_LevelOnly(info, id, env) ==
    IF Falsy(info.level)
    THEN NoRecord
    ELSE [thrown |-> FALSE, record |-> BuildRecord(info, id, env)]

\* transformLogInfo: throws when level or message is falsy, otherwise builds
\* the record.
transformLogInfo(info, id, env) ==
    IF RequiredMissing(info)
    THEN NoRecord
    ELSE [thrown |-> FALSE, record |-> BuildRecord(info, id, env)]

\* log() without its try/catch: the error of transformLogInfo reaches the caller
LogResult_NoCatch(thrown) ==
    [escaped |-> thrown, emitted |-> FALSE, callbacks |-> IF thrown THEN 0 ELSE 1]

\* the try/catch of log(): an error thrown while transforming or buffering is
\* caught and emitted as an error event; the callback runs once on either path
LogResult(thrown) ==
    [escaped |-> FALSE, emitted |-> thrown, callbacks |-> 1]

\* ----------------------------------------------------------- flush
\* the per-record check of flush(): `if (!log.level || !log.message) throw`
FlushRecordValid(log) == ~(Falsy(log.level) \/ Falsy(log.message))

\* position of the first record that fails the check of flush(), or one past
\* the end when none does
FirstInvalid(logs) ==
    IF \A i \in DOMAIN logs : FlushRecordValid(logs[i])
    THEN Len(logs) + 1
    ELSE CHOOSE i \in DOMAIN logs :
            /\ ~FlushRecordValid(logs[i])
            /\ \A j \in 1..(i - 1) : FlushRecordValid(logs[j])

\* a flush() that leaves the timestamps alone
RepairTimestamps_None(logs) == logs

\* the map of flush(), which works on the record objects in place:
\* `if (log.timestamp && Number.isNaN(log.timestamp.getTime()))
\*      log.timestamp = new Date()`
\* for every record it reaches before one makes it throw
RepairTimestamps(logs) ==
    [i \in DOMAIN logs |->
        IF i < FirstInvalid(logs) /\ logs[i].timestamp = InvalidDate
        THEN [logs[i] EXCEPT !.timestamp = FlushTime]
        ELSE logs[i]]

\* a copy that misses the newest record
DrainSlice_DropLast(batch) == SubSeq(batch, 1, Len(batch) - 1)

\* `const logsToFlush = [...this.logBatch]`
DrainSlice(batch) == batch

\* a flush() without the test for an empty buffer
FlushIsNoop_Never(batch) == FALSE

\* flush() without the reset of the buffer
DrainRest_Keep(batch) == batch

\* `this.logBatch = []`
DrainRest(batch) == << >>

\* `if (this.logBatch.length === 0) return`
FlushIsNoop(batch) == Len(batch) = 0

\* a flush() that drains the buffer but leaves its bulk insert for later
NewCycle_Deferred(logsToFlush, trigger, allValid) ==
    [slice |-> logsToFlush, trigger |-> trigger, pc |-> "bulk", idx |-> 0,
     bulk |-> "pending", issued |-> << >>, errors |-> 0, answers |-> << >>,
     rejected |-> FALSE]

\* A flush cycle, as created by flush() at its first await:
\*   slice    logsToFlush
\*   trigger  who called flush(): "size", "timer", "close" or "signal"
\*   pc       "bulk": awaiting the bulk insert; "retry": awaiting the
\*            individual insert of slice[idx]; "done": flush() has returned
\*   bulk     outcome of the bulk insert ("skipped": never issued)
\*   issued   history: the record ids of every db.insert issued by the cycle
\*   answers  history: the store's answer to each of these calls (TRUE: ok)
\*   errors   number of aggregate error events the cycle has emitted
\*   rejected the promise returned by flush() was rejected
NewCycle(logsToFlush, trigger, allValid) ==
    IF allValid
    THEN [slice |-> logsToFlush, trigger |-> trigger, pc |-> "bulk", idx |-> 0,
          bulk |-> "pending", issued |-> <<Ids(logsToFlush)>>, errors |-> 0,
          answers |-> << >>, rejected |-> FALSE]
    ELSE [slice |-> logsToFlush, trigger |-> trigger, pc |-> "retry", idx |-> 1,
          bulk |-> "skipped", issued |-> <<<<logsToFlush[1].id>>>>, errors |-> 0,
          answers |-> << >>, rejected |-> FALSE]

\* flush() from its entry to its first await.  Takes the buffer and the
\* cycles and returns their new values.
\*   - empty buffer: return at once;
\*   - otherwise drain the whole buffer, validate each record (repairing its
\*     timestamp) and issue the
\*     bulk insert; a record failing the validation throws into the catch
\*     block, which starts retryIndividualInserts with its first insert.
flush(batch, fl, trigger) ==
    IF FlushIsNoop(batch)
    THEN [logBatch |-> batch, flushes |-> fl]
    ELSE LET logsToFlush == RepairTimestamps(DrainSlice(batch))
             allValid == \A i \in DOMAIN logsToFlush : FlushRecordValid(logsToFlush[i])
         IN  [logBatch |-> DrainRest(batch),
              flushes |-> Append(fl, NewCycle(logsToFlush, trigger, allValid))]

\* unshift in place of push
BatchPush_Front(batch, rec) == <<rec>> \o batch

\* `this.logBatch.push(logRecord)`
BatchPush(batch, rec) == Append(batch, rec)

\* `>` in place of `>=`
BatchFull_Strict(batch, bs) == Len(batch) > bs

\* `if (this.logBatch.length >= this.batchSize)`
BatchFull(batch, bs) == Len(batch) >= bs

\* addToBatch: push, then flush when the buffer has reached batchSize
addToBatch(batch, rec, fl, bs) ==
    LET pushed == BatchPush(batch, rec)
    IN  IF BatchFull(pushed, bs)
        THEN flush(pushed, fl, "size")
        ELSE [logBatch |-> pushed, flushes |-> fl]

\* ----------------------------------------------------------- state machine
\* the transport right after its constructor
Start ==
    /\ logBatch = << >>
    /\ timerActive = TRUE
    /\ cleanCloses = 0
    /\ flushes = << >>
    /\ store = [id \in RecordIds |-> 0]
    /\ failedRecords = [id \in RecordIds |-> 0]
    /\ validationErrors = 0
    /\ calls = 0
    /\ accepted = << >>
    /\ callbacks = 0
    /\ logThrows = 0

\* the values of NODE_ENV that are explored
NodeEnvs == {Undefined, "development", "production"}

\* no call has been made to the logging facade
NoCall == [fn |-> "none"]

FacadeStart ==
    /\ facadeCalls = 0
    /\ lastCall = NoCall
    /\ edgeOut = [console |-> 0, posts |-> 0]

\* no request has been made to the log management route
NoRequest == [days |-> NoValue, status |-> 0]

PurgeStart ==
    /\ rows = {}
    /\ purge = NoRequest

\* rate-limit.ts right after `const records = new Map()`
NoRecords == [i \in {} |-> [count |-> 0, expires |-> 0]]

\* the middleware has answered no request
NoResponse ==
    [status |-> 0, body |-> "none", requestId |-> 0, secured |-> FALSE,
     thrown |-> FALSE, logged |-> "none", level |-> "none"]

\* localStorage holds no entry under the key of the hook
NoEntry == [present |-> FALSE, content |-> 0, cachedAt |-> 0]

\* no component using the hook is mounted
Unmounted ==
    [mounted |-> FALSE, content |-> 0, isLoading |-> TRUE, error |-> FALSE,
     pending |-> "none", source |-> "none"]

\* the web site before any request and any page view
SiteStart ==
    /\ clock = 0
    /\ records = NoRecords
    /\ rateOpts = [windowMs |-> 0, maxRequests |-> 0]
    /\ rateCalls = << >>
    /\ requests = 0
    /\ response = NoResponse
    /\ cache = NoEntry
    /\ hook = Unmounted
    /\ fetches = 0

\* a development process with LOG_LEVEL and EDGE_LOG_ENDPOINT not set
DevelopmentEnv ==
    /\ nodeEnv = "development"
    /\ logLevelEnv = Undefined
    /\ edgeEndpoint = FALSE

Init ==
    /\ events = RawEvents
    /\ batchSize \in {NormBatchSize(o) : o \in BatchSizeOpts}
    /\ DevelopmentEnv
    /\ Start
    /\ FacadeStart
    /\ PurgeStart
    /\ SiteStart

\* log(info, callback): transform and buffer; a validation error is caught and
\* emitted as an error event.  (What log() does to the transport.)
LogCore(info) ==
    /\ calls < MaxLogs
    /\ calls' = calls + 1
    /\ LET t == transformLogInfo(info, calls + 1, nodeEnv)
           res == LogResult(t.thrown)
       IN  /\ IF t.thrown
              THEN UNCHANGED <<logBatch, flushes, accepted>>
              ELSE LET r == addToBatch(logBatch, t.record, flushes, batchSize)
                   IN  /\ logBatch' = r.logBatch
                       /\ flushes' = r.flushes
                       /\ accepted' = Append(accepted, t.record.id)
           /\ validationErrors' = validationErrors + (IF res.emitted THEN 1 ELSE 0)
           /\ callbacks' = callbacks + res.callbacks
           /\ logThrows' = logThrows + (IF res.escaped THEN 1 ELSE 0)
    /\ cleanCloses' = 0
    /\ UNCHANGED <<events, batchSize, timerActive, store, failedRecords>>

\* a call of log() by a caller of the transport, with one of the raw events
\* of the run
Log(info) ==
    /\ info \in events
    /\ LogCore(info)
    /\ UNCHANGED <<envVars, facadeVars, purgeVars, siteVars>>

\* the part shared by the callers of flush() other than addToBatch
RunFlush(trigger) ==
    LET r == flush(logBatch, flushes, trigger)
    IN  /\ logBatch' = r.logBatch
        /\ flushes' = r.flushes

\* the setInterval callback of startFlushTimer
TimerTick ==
    /\ UNCHANGED <<envVars, facadeVars, purgeVars, siteVars>>
    /\ timerActive
    /\ RunFlush("timer")
    /\ UNCHANGED <<events, batchSize, timerActive, cleanCloses, store, failedRecords,
                   validationErrors, calls, accepted, callbacks, logThrows>>

\* a close() that leaves the timer running
ClearInterval_Noop(active) == active

\* `if (this.flushTimer) clearInterval(this.flushTimer)`: whether the timer
\* is still active afterwards
ClearInterval(active) == FALSE

\* close(): clearInterval, then flush() without awaiting it
Close ==
    /\ UNCHANGED <<envVars, facadeVars, purgeVars, siteVars>>
    /\ timerActive' = ClearInterval(timerActive)
    /\ RunFlush("close")
    /\ cleanCloses' = IF cleanCloses < MaxCloses THEN cleanCloses + 1 ELSE cleanCloses
    /\ UNCHANGED <<events, batchSize, store, failedRecords, validationErrors, calls,
                   accepted, callbacks, logThrows>>

\* the beforeExit / SIGINT / SIGTERM hooks of the constructor: this.flush()
Signal ==
    /\ UNCHANGED <<envVars, facadeVars, purgeVars, siteVars>>
    /\ RunFlush("signal")
    /\ UNCHANGED <<events, batchSize, timerActive, cleanCloses, store, failedRecords,
                   validationErrors, calls, accepted, callbacks, logThrows>>

\* the store commits the records of one insert call (all of them)
Commit(st, ids) == [id \in RecordIds |-> st[id] + Cardinality({i \in DOMAIN ids : ids[i] = id})]

\* retryIndividualInserts without the try/catch around the insert: a failed
\* insert ends the loop and rejects the promise of flush()
AfterSingle_NoCatch(f, i, ok) ==
    IF ok /\ i < Len(f.slice)
    THEN [f EXCEPT !.idx = i + 1, !.issued = Append(@, <<f.slice[i + 1].id>>),
                   !.answers = Append(@, ok)]
    ELSE IF ok
    THEN [f EXCEPT !.pc = "done", !.errors = @ + 1, !.answers = Append(@, ok)]
    ELSE [f EXCEPT !.pc = "done", !.answers = Append(@, ok), !.rejected = TRUE]

\* a loop that tries a refused record a second time before it moves on
AfterSingle_RetryAgain(f, i, ok) ==
    IF ~ok /\ f.issued[Len(f.issued)] # f.issued[Len(f.issued) - 1]
    THEN [f EXCEPT !.issued = Append(@, <<f.slice[i].id>>), !.answers = Append(@, ok)]
    ELSE IF i < Len(f.slice)
    THEN [f EXCEPT !.idx = i + 1, !.issued = Append(@, <<f.slice[i + 1].id>>),
                   !.answers = Append(@, ok)]
    ELSE [f EXCEPT !.pc = "done", !.errors = @ + 1, !.answers = Append(@, ok)]

\* retryIndividualInserts, one loop iteration, after the insert of record
\* number i of cycle f has resolved with answer ok.  A failure is caught inside
\* the loop, so either answer continues the loop: issue the insert of the next
\* record, or return to the catch block of flush(), which emits the aggregate
\* error event.
AfterSingle(f, i, ok) ==
    IF i < Len(f.slice)
    THEN [f EXCEPT !.idx = i + 1, !.issued = Append(@, <<f.slice[i + 1].id>>),
                   !.answers = Append(@, ok)]
    ELSE [f EXCEPT !.pc = "done", !.errors = @ + 1, !.answers = Append(@, ok)]

\* flush() after its bulk insert succeeded: return
AfterBulkSuccess(f) ==
    [f EXCEPT !.pc = "done", !.bulk = "ok", !.answers = Append(@, TRUE)]

\* a catch block that only reports the failure, without the fallback pass
AfterBulkFailure_NoRetry(f) ==
    [f EXCEPT !.pc = "done", !.bulk = "failed", !.errors = @ + 1,
              !.answers = Append(@, FALSE)]

\* a catch block that emits the error event before the fallback pass
AfterBulkFailure_EmitEarly(f) ==
    [f EXCEPT !.pc = "retry", !.bulk = "failed", !.idx = 1, !.errors = @ + 1,
              !.issued = Append(@, <<f.slice[1].id>>), !.answers = Append(@, FALSE)]

\* the catch block of flush() after a failed bulk insert: start
\* retryIndividualInserts, which issues the insert of the first record
AfterBulkFailure(f) ==
    [f EXCEPT !.pc = "retry", !.bulk = "failed", !.idx = 1,
              !.issued = Append(@, <<f.slice[1].id>>), !.answers = Append(@, FALSE)]

\* the bulk insert of cycle c resolves.  The store is all-or-nothing: on
\* success every record of the call is committed, on failure none is.
BulkResolve(c, ok) ==
    /\ UNCHANGED <<envVars, facadeVars, purgeVars, siteVars>>
    /\ c \in DOMAIN flushes
    /\ flushes[c].pc = "bulk"
    /\ IF ok
       THEN /\ store' = Commit(store, Ids(flushes[c].slice))
            /\ flushes' = [flushes EXCEPT ![c] = AfterBulkSuccess(@)]
       ELSE /\ store' = store
            /\ flushes' = [flushes EXCEPT ![c] = AfterBulkFailure(@)]
    /\ UNCHANGED <<events, batchSize, logBatch, timerActive, cleanCloses, failedRecords,
                   validationErrors, calls, accepted, callbacks, logThrows>>

\* the individual insert in flight for cycle c resolves; a failure is caught
\* inside the loop and reported on the console
SingleResolve(c, ok) ==
    /\ UNCHANGED <<envVars, facadeVars, purgeVars, siteVars>>
    /\ c \in DOMAIN flushes
    /\ flushes[c].pc = "retry"
    /\ LET i == flushes[c].idx
           id == flushes[c].slice[i].id
       IN  /\ IF ok
              THEN /\ store' = Commit(store, <<id>>)
                   /\ UNCHANGED failedRecords
              ELSE /\ failedRecords' = [failedRecords EXCEPT ![id] = @ + 1]
                   /\ UNCHANGED store
           /\ flushes' = [flushes EXCEPT ![c] = AfterSingle(@, i, ok)]
    /\ UNCHANGED <<events, batchSize, logBatch, timerActive, cleanCloses, validationErrors,
                   calls, accepted, callbacks, logThrows>>

Next ==
    \/ \E info \in events : Log(info)
    \/ TimerTick
    \/ Close
    \/ Signal
    \/ \E c \in RecordIds, ok \in BOOLEAN : BulkResolve(c, ok)
    \/ \E c \in RecordIds, ok \in BOOLEAN : SingleResolve(c, ok)

Spec == Init /\ [][Next]_vars

\* The scheduling the liveness claims assume: the interval timer keeps firing
\* while it has not been cleared, and every store call eventually resolves.
Fairness ==
    /\ WF_vars(TimerTick)
    /\ \A c \in RecordIds : WF_vars(\E ok \in BOOLEAN : BulkResolve(c, ok))
    /\ \A c \in RecordIds : WF_vars(\E ok \in BOOLEAN : SingleResolve(c, ok))

\* the liveness claims are explored for one transport configuration
LiveInit == Init /\ batchSize = 2

LiveSpec == LiveInit /\ [][Next]_vars /\ Fairness

\* ----------------------------------------------------------- field inputs
\* the longest string that is tried for a field (the 5000-character stack)
HugeLen == 5000

Chars(c, n) == [i \in 1..n |-> c]

\* xxxxxxxx-xxxx-Vxxx-Rxxx-xxxxxxxxxxxx with version digit V, variant digit R
\* and every other digit x
UuidLike(ver, var, x) ==
    Chars(x, 8) \o <<"-">> \o Chars(x, 4) \o <<"-", ver>> \o Chars(x, 3)
        \o <<"-", var>> \o Chars(x, 3) \o <<"-">> \o Chars(x, 12)

\* identifiers in the canonical 8-4-4-4-12 form with a version 1 to 5 and the
\* RFC 4122 variant, in lower and in upper case
ValidUuids ==
    {UuidLike("4", "a", "0"), UuidLike("1", "8", "9"), UuidLike("5", "B", "F")}

\* identifiers that are not in that form: version 0 (the nil UUID) and 7,
\* variant c, a digit that is not hexadecimal, one character short, one
\* character long, no hyphens, a short word
MalformedUuids ==
    {UuidLike("0", "0", "0"), UuidLike("7", "a", "0"), UuidLike("4", "c", "0"),
     UuidLike("4", "a", "g"), SubSeq(UuidLike("4", "a", "0"), 1, 35),
     UuidLike("4", "a", "0") \o <<"0">>, Chars("a", 32), Str(5)}

UuidInputs == ValidUuids \cup MalformedUuids \cup {NoValue, << >>}

\* the values tried for a field whose limit is n: absent, empty, of exactly n
\* characters, of one character more
Around(n) == {NoValue, << >>, Str(n), Str(n + 1)}

\* the timestamps tried: absent, empty, a text that is no date, a zero date
TimestampInputs == {Undefined, "", "yesterday", "0000-00-00"}

\* a raw event whose every field is present and acceptable
FullEvent ==
    [level |-> "info", message |-> "m", timestamp |-> "2024-05-01T10:00:00.000Z",
     environment |-> "staging", service |-> "billing", meta |-> "plain",
     requestId |-> UuidLike("4", "a", "0"), userId |-> UuidLike("1", "8", "9"),
     sessionId |-> Str(3), ipAddress |-> Str(7), userAgent |-> Str(4),
     method |-> Str(3), url |-> Str(9), statusCode |-> Str(3),
     responseTime |-> Str(4), stack |-> Str(8), errorCode |-> Str(6),
     version |-> Str(5)]

\* the raw events of the validation specification: FullEvent with one field
\* replaced by each of the values tried for it
FieldEvents ==
    {[FullEvent EXCEPT !.level = v] : v \in LevelInputs \cup {"fatal"}}
    \cup {[FullEvent EXCEPT !.message = v] : v \in MessageInputs}
    \cup {[FullEvent EXCEPT !.meta = v] : v \in MetaInputs}
    \cup {[FullEvent EXCEPT !.timestamp = v] : v \in TimestampInputs}
    \cup {[FullEvent EXCEPT !.environment = v] : v \in {Undefined, ""}}
    \cup {[FullEvent EXCEPT !.service = v] : v \in {Undefined, ""}}
    \cup {[FullEvent EXCEPT !.environment = Undefined, !.service = Undefined]}
    \cup {[FullEvent EXCEPT !.requestId = v] : v \in UuidInputs}
    \cup {[FullEvent EXCEPT !.userId = v] : v \in UuidInputs}
    \cup {[FullEvent EXCEPT !.sessionId = v] : v \in Around(MaxSessionIdLen)}
    \cup {[FullEvent EXCEPT !.ipAddress = v] : v \in {NoValue, << >>}}
    \cup {[FullEvent EXCEPT !.userAgent = v] : v \in {NoValue, << >>}}
    \cup {[FullEvent EXCEPT !.method = v] : v \in Around(MaxMethodLen)}
    \cup {[FullEvent EXCEPT !.url = v] : v \in {NoValue, << >>, Str(1), Str(HugeLen)}}
    \cup {[FullEvent EXCEPT !.statusCode = v] : v \in Around(MaxStatusCodeLen)}
    \cup {[FullEvent EXCEPT !.responseTime = v] : v \in Around(MaxResponseTimeLen)}
    \cup {[FullEvent EXCEPT !.stack = v] : v \in {NoValue, << >>, Str(1), Str(HugeLen)}}
    \cup {[FullEvent EXCEPT !.errorCode = v] : v \in Around(MaxErrorCodeLen)}
    \cup {[FullEvent EXCEPT !.version = v] : v \in Around(MaxVersionLen)}

\* The validation specification: the same transport, with batchSize 1, whose
\* callers pass one raw event of FieldEvents (the same one at every call);
\* NODE_ENV is varied for the events that leave the environment to it.
ValidateInit ==
    /\ \E e \in FieldEvents :
          /\ events = {e}
          /\ nodeEnv \in (IF Falsy(e.environment) THEN NodeEnvs ELSE {"production"})
    /\ logLevelEnv = Undefined
    /\ edgeEndpoint = FALSE
    /\ batchSize = 1
    /\ Start
    /\ FacadeStart
    /\ PurgeStart
    /\ SiteStart

ValidateSpec == ValidateInit /\ [][Next]_vars

\* every record that log() has built: those in the buffer and those drained
AllRecords ==
    Range(logBatch) \cup UNION {Range(flushes[c].slice) : c \in DOMAIN flushes}

\* every record handed to the store (in a bulk insert or an individual one)
HandedToStore == UNION {Range(flushes[c].slice) : c \in DOMAIN flushes}

\* ----------------------------------------------------------- logging facade
\* createLogger: createPostgresTransport({ level: "info", batchSize: 20, ... })
LoggerBatchSize == 20

TransportLevel == "info"

\* createLogger: `level: process.env.LOG_LEVEL || "info"`
LoggerLevel(env) == IF Falsy(env) THEN "info" ELSE env

\* the values of LOG_LEVEL that are explored (lower case, as toLowerCase
\* leaves them)
LogLevelEnvs == {Undefined, "error", "warn", "http", "debug"}

\* the severity order of the levels of winston.createLogger (the npm levels
\* of the library: the lower the number, the more severe)
NpmLevels ==
    [error |-> 0, warn |-> 1, info |-> 2, http |-> 3, verbose |-> 4, debug |-> 5,
     silly |-> 6]

\* the level test winston applies at the logger and at each transport: a call
\* passes when it is at least as severe as the configured level
PassesLevel(configured, level) == NpmLevels[configured] >= NpmLevels[level]

\* a transport gate that lets everything through
ReachesTransport_Always(env, level) == TRUE

\* a call of the winston logger reaches log() of the database transport when
\* it passes the level of the logger and the level of the transport
ReachesTransport(env, level) ==
    /\ PassesLevel(LoggerLevel(env), level)
    /\ PassesLevel(TransportLevel, level)

\* the request context of one request, as extractRequestContext builds it (a
\* v4 UUID as requestId) and with a userId bound; its startTime is not a
\* field of LogInfo and ends in the metadata of the record
Ctx ==
    [requestId |-> UuidLike("4", "a", "0"), userId |-> UuidLike("4", "b", "1"),
     ipAddress |-> Str(7), userAgent |-> Str(4), method |-> Str(3), url |-> Str(9)]

\* the metadata arguments tried: none, one that names no field of the
\* context, one that names fields of the context
MetaKinds == {"none", "plain", "clash"}

MetaArg(kind) ==
    CASE kind = "none" -> << >>
      [] kind = "plain" -> [errorCode |-> Str(4)]
      [] kind = "clash" -> [requestId |-> UuidLike("4", "8", "2"), url |-> Str(2)]

\* `{ ...a, ...b }`: the keys of both, the value of b where both have the key
Spread(a, b) ==
    [f \in DOMAIN a \cup DOMAIN b |-> IF f \in DOMAIN b THEN b[f] ELSE a[f]]

DigitChar(d) == <<"0", "1", "2", "3", "4", "5", "6", "7", "8", "9">>[d + 1]

RECURSIVE NumStr(_)
\* `statusCode.toString()`: the decimal digits of a natural number
NumStr(n) == IF n < 10 THEN <<DigitChar(n)>> ELSE NumStr(n \div 10) \o <<DigitChar(n % 10)>>

\* the status codes and response times tried
StatusCodes == {200, 399, 400, 499, 500}
ResponseTimes == {12}

\* `{ statusCode: statusCode.toString(), responseTime: `${responseTime}ms` }`
HttpFields(statusCode, responseTime) ==
    [statusCode |-> NumStr(statusCode), responseTime |-> NumStr(responseTime) \o <<"m", "s">>]

\* logHttpRequest:
\* `statusCode >= 500 ? "error" : statusCode >= 400 ? "warn" : "info"`
HttpLevel(statusCode) ==
    IF statusCode >= 500 THEN "error" ELSE IF statusCode >= 400 THEN "warn" ELSE "info"

\* the info object winston hands to the transports for logger.log(level,
\* message, fields): level, message and the keys of fields; the context's
\* startTime is always among the remaining keys
WinstonInfo(level, message, fields) ==
    [f \in OptionalFields |-> IF f \in DOMAIN fields THEN fields[f] ELSE NoValue]
        @@ [level |-> level, message |-> message, timestamp |-> Undefined,
            environment |-> Undefined, service |-> Undefined, meta |-> "plain"]

\* logger.log(level, message, fields), called by facade function fn: the
\* logger and the transport test the level, then log() of the transport runs
\* synchronously
LoggerLog(fn, level, statusCode, kind, message, fields) ==
    /\ facadeCalls < MaxFacadeCalls
    /\ facadeCalls' = facadeCalls + 1
    /\ LET info == WinstonInfo(level, message, fields)
           reaches == ReachesTransport(logLevelEnv, level)
       IN  /\ lastCall' = [fn |-> fn, level |-> level, status |-> statusCode,
                           meta |-> kind, reaches |-> reaches]
           /\ IF reaches THEN LogCore(info) ELSE UNCHANGED transportVars
    /\ UNCHANGED <<envVars, edgeOut, purgeVars, siteVars>>

\* the level methods of a request-scoped logger
RequestLoggerMethods == {"error", "warn", "info", "debug"}

\* createRequestLogger(context).error|warn|info|debug(message, meta)
RequestLoggerCall(method, kind) ==
    LoggerLog("request." \o method, method, 0, kind, "m", Spread(Ctx, MetaArg(kind)))

\* createRequestLogger(context).http(statusCode, responseTime, meta)
RequestLoggerHttp(statusCode, responseTime, kind) ==
    LoggerLog("request.http", "http", statusCode, kind, "GET /api",
              Spread(Spread(Ctx, HttpFields(statusCode, responseTime)), MetaArg(kind)))

\* logHttpRequest(context, statusCode, responseTime, additionalMeta)
LogHttpRequest(statusCode, responseTime, kind) ==
    LoggerLog("logHttpRequest", HttpLevel(statusCode), statusCode, kind, "GET /api",
              Spread(Spread(Ctx, HttpFields(statusCode, responseTime)), MetaArg(kind)))

\* the LogLevel enum of the edge logger
EdgeLevels == [debug |-> 0, info |-> 1, warn |-> 2, error |-> 3]

\* EdgeLogger.getLogLevel: LOG_LEVEL when it names one of the four levels,
\* INFO otherwise
EdgeMinLevel(env) == IF env \in DOMAIN EdgeLevels THEN EdgeLevels[env] ELSE EdgeLevels["info"]

\* `if (level < this.minLevel) return`
EdgeBelowMin(level, env) == EdgeLevels[level] < EdgeMinLevel(env)

\* `this.enableConsole = process.env.NODE_ENV === 'development'`
EdgeConsole(env) == env = "development"

\* what EdgeLogger.log adds to the output of the edge logger
EdgeWrite(out, level) ==
    IF EdgeBelowMin(level, logLevelEnv) THEN out
    ELSE [console |-> out.console + (IF EdgeConsole(nodeEnv) THEN 1 ELSE 0),
          posts |-> out.posts + (IF edgeEndpoint THEN 1 ELSE 0)]

\* EdgeLogger.log: nothing below the minimum level; otherwise one console
\* line when the console is enabled and one POST when an endpoint is set
EdgeLog(fn, level, statusCode) ==
    /\ facadeCalls < MaxFacadeCalls
    /\ facadeCalls' = facadeCalls + 1
    /\ LET skipped == EdgeBelowMin(level, logLevelEnv)
       IN  /\ lastCall' = [fn |-> fn, level |-> level, status |-> statusCode,
                           meta |-> "none", reaches |-> ~skipped]
           /\ edgeOut' = EdgeWrite(edgeOut, level)
    /\ UNCHANGED <<transportVars, envVars, purgeVars, siteVars>>

\* edgeLogger.debug|info|warn|error(message, context, metadata)
EdgeLoggerCall(level) == EdgeLog("edge." \o level, level, 0)

\* logEdgeHttpRequest(context, statusCode, responseTime, additionalMeta)
LogEdgeHttpRequest(statusCode) ==
    EdgeLog("logEdgeHttpRequest", HttpLevel(statusCode), statusCode)

FacadeNext ==
    \/ \E method \in RequestLoggerMethods, kind \in MetaKinds : RequestLoggerCall(method, kind)
    \/ \E sc \in StatusCodes, rt \in ResponseTimes, kind \in MetaKinds :
          RequestLoggerHttp(sc, rt, kind)
    \/ \E sc \in StatusCodes, rt \in ResponseTimes, kind \in MetaKinds :
          LogHttpRequest(sc, rt, kind)
    \/ \E level \in DOMAIN EdgeLevels : EdgeLoggerCall(level)
    \/ \E sc \in StatusCodes : LogEdgeHttpRequest(sc)

\* The facade specification: a process with LOG_TO_DATABASE on, whose logger
\* createLogger has built, and the edge logger; any LOG_LEVEL, NODE_ENV and
\* EDGE_LOG_ENDPOINT.
FacadeInit ==
    /\ nodeEnv \in NodeEnvs
    /\ logLevelEnv \in LogLevelEnvs
    /\ edgeEndpoint \in BOOLEAN
    /\ events = {}
    /\ batchSize = NormBatchSize(LoggerBatchSize)
    /\ Start
    /\ FacadeStart
    /\ PurgeStart
    /\ SiteStart

FacadeSpec == FacadeInit /\ [][FacadeNext]_vars

\* ----------------------------------------------------------- log management route
\* `parseInt(searchParams.get('days') || '30')`
DefaultRetentionDays == 30

\* what parseInt returns for a text that does not start with a digit
NaN == [nan |-> TRUE, value |-> 0]

\* the number a string of decimal digits denotes
RECURSIVE DigitsValue(_)
DigitsValue(text) ==
    IF text = << >> THEN 0
    ELSE 10 * DigitsValue(SubSeq(text, 1, Len(text) - 1))
            + (CHOOSE d \in 0..9 : DigitChar(d) = text[Len(text)])

\* the longest prefix of text made of decimal digits
RECURSIVE DigitPrefix(_)
DigitPrefix(text) ==
    IF text = << >> \/ Head(text) \notin Digits THEN << >>
    ELSE <<Head(text)>> \o DigitPrefix(Tail(text))

\* parseInt on a text without sign or leading blanks: the number its leading
\* digits denote, NaN when it has none
ParseInt(text) ==
    IF DigitPrefix(text) = << >> THEN NaN
    ELSE [nan |-> FALSE, value |-> DigitsValue(DigitPrefix(text))]

\* `parseInt(searchParams.get('days') || '30')`; an absent parameter (null)
\* and an empty one are falsy
RetentionDays(param) ==
    IF FalsyStr(param) THEN ParseInt(NumStr(DefaultRetentionDays)) ELSE ParseInt(param)

\* the values of the query parameter days that are tried
DaysParams == {NoValue, << >>, <<"0">>, <<"7">>, <<"3", "0">>, <<"7", "d">>, <<"a", "l", "l">>}

\* the rows of the logs table, each known by its age at the time of the
\* request: its timestamp is that many days before `new Date()`
RowAges == {0, 1, 6, 7, 8, 29, 30, 31, 60}

\* `.where(gte(logsTable.timestamp, cutoffDate))` with cutoffDate = now - days:
\* the rows the delete statement matches
MatchedRows(table, days) == {age \in table : age <= days}

\* DELETE /api/logs?days=param.  A days that is not a number makes
\* cutoffDate an Invalid Date, whose toISOString() throws before the delete
\* statement is issued; a failing statement throws as well; the catch block
\* answers 500.  Otherwise the matched rows are deleted and the answer is 200.
Delete(param, ok) ==
    /\ LET days == RetentionDays(param)
       IN  IF days.nan \/ ~ok
           THEN /\ rows' = rows
                /\ purge' = [days |-> param, status |-> 500]
           ELSE /\ rows' = rows \ MatchedRows(rows, days.value)
                /\ purge' = [days |-> param, status |-> 200, cutoff |-> days.value,
                             before |-> rows]
    /\ UNCHANGED <<transportVars, envVars, facadeVars, siteVars>>

PurgeNext == \E param \in DaysParams, ok \in BOOLEAN : Delete(param, ok)

\* The purge specification: a logs table holding any rows of RowAges, and
\* DELETE requests.
PurgeInit ==
    /\ rows \in SUBSET RowAges
    /\ purge = NoRequest
    /\ events = {}
    /\ batchSize = DefaultBatchSize
    /\ DevelopmentEnv
    /\ Start
    /\ FacadeStart
    /\ SiteStart

PurgeSpec == PurgeInit /\ [][PurgeNext]_vars

\* ----------------------------------------------------------- rate limiter
MaxChecks == 5          \* number of checkRateLimit calls in one behaviour

\* middleware.ts: RATE_LIMIT_WINDOW and RATE_LIMIT_MAX
RATE_LIMIT_WINDOW == 60000
RATE_LIMIT_MAX == 50

\* the callers' addresses
Identifiers == {"10.0.0.1", "10.0.0.2"}

\* `records.get(identifier) || { count: 0, expires: now + windowMs }`
GetRecord(recs, identifier, now, windowMs) ==
    IF identifier \in DOMAIN recs THEN recs[identifier]
    ELSE [count |-> 0, expires |-> now + windowMs]

\* a test that also ends the window at its expiry time
Expired_Inclusive(now, record) == now >= record.expires

\* `if (now > record.expires)`
Expired(now, record) == now > record.expires

\* a reset that keeps the count of the window that ended
ResetRecord_KeepCount(record, now, windowMs) ==
    [count |-> record.count, expires |-> now + windowMs]

\* `record.count = 0; record.expires = now + windowMs`
ResetRecord(record, now, windowMs) == [count |-> 0, expires |-> now + windowMs]

\* `records.set(identifier, record)`
SetRecord(recs, identifier, record) ==
    [i \in (DOMAIN recs) \cup {identifier} |-> IF i = identifier THEN record ELSE recs[i]]

\* checkRateLimit(identifier, { windowMs, maxRequests }) at time now: the
\* new map and the value returned
checkRateLimit(recs, identifier, opts, now) ==
    LET found == GetRecord(recs, identifier, now, opts.windowMs)
        record == IF Expired(now, found)
                  THEN ResetRecord(found, now, opts.windowMs)
                  ELSE found
        counted == [record EXCEPT !.count = @ + 1]
    IN  [records |-> SetRecord(recs, identifier, counted),
         allowed |-> counted.count <= opts.maxRequests]

\* the instants at which calls are made: around the end of the first window
\* and of a window that started at its last instant
RateInstants ==
    {0, 1, RATE_LIMIT_WINDOW, RATE_LIMIT_WINDOW + 1, 2 * RATE_LIMIT_WINDOW,
     2 * RATE_LIMIT_WINDOW + 1, 2 * RATE_LIMIT_WINDOW + 2}

\* time passes
Advance(instants) ==
    /\ \E t \in instants : t > clock /\ clock' = t
    /\ UNCHANGED <<transportVars, envVars, facadeVars, purgeVars, rateVars,
                   middlewareVars, hookVars>>

\* a call of checkRateLimit by some caller, with the options of the run
CheckRateLimit(identifier) ==
    /\ Len(rateCalls) < MaxChecks
    /\ LET r == checkRateLimit(records, identifier, rateOpts, clock)
       IN  /\ records' = r.records
           /\ rateCalls' = Append(rateCalls, [identifier |-> identifier, at |-> clock,
                                              allowed |-> r.allowed])
    /\ UNCHANGED <<transportVars, envVars, facadeVars, purgeVars, clock, rateOpts,
                   middlewareVars, hookVars>>

RateNext ==
    \/ \E identifier \in Identifiers : CheckRateLimit(identifier)
    \/ Advance(RateInstants)

\* the values of maxRequests that are explored
MaxRequestsOpts == {0, 1, 2}

\* The rate limiter specification: callers that all pass the same options,
\* the window of the middleware and a small maxRequests.
RateInit ==
    /\ clock = 0
    /\ records = NoRecords
    /\ rateOpts \in {[windowMs |-> RATE_LIMIT_WINDOW, maxRequests |-> m] : m \in MaxRequestsOpts}
    /\ rateCalls = << >>
    /\ requests = 0
    /\ response = NoResponse
    /\ cache = NoEntry
    /\ hook = Unmounted
    /\ fetches = 0
    /\ events = {}
    /\ batchSize = DefaultBatchSize
    /\ DevelopmentEnv
    /\ Start
    /\ FacadeStart
    /\ PurgeStart

RateSpec == RateInit /\ [][RateNext]_vars

\* ----------------------------------------------------------- middleware
MaxRequests == 2        \* number of requests the middleware handles in one behaviour

\* `pathname.startsWith(pattern)`, on strings held as sequences of characters
StartsWith(text, pattern) ==
    Len(text) >= Len(pattern) /\ SubSeq(text, 1, Len(pattern)) = pattern

ApiPrefix == <<"/", "a", "p", "i">>

\* shouldSkipPath: the skipPatterns
SkipPatterns ==
    {<<"/", "_", "n", "e", "x", "t", "/", "s", "t", "a", "t", "i", "c">>,
     <<"/", "_", "n", "e", "x", "t", "/", "i", "m", "a", "g", "e">>,
     <<"/", "f", "a", "v", "i", "c", "o", "n", ".", "i", "c", "o">>,
     ApiPrefix,
     <<"/", "r", "o", "b", "o", "t", "s", ".", "t", "x", "t">>,
     <<"/", "s", "i", "t", "e", "m", "a", "p", ".", "x", "m", "l">>,
     <<"/", "h", "e", "a", "l", "t", "h">>,
     <<"/", "p", "i", "n", "g">>,
     <<"/", ".", "w", "e", "l", "l", "-", "k", "n", "o", "w", "n">>}

\* shouldSkipPath(pathname)
shouldSkipPath(pathname) == \E pattern \in SkipPatterns : StartsWith(pathname, pattern)

\* the paths requested: an API route, a page, a health check
Paths ==
    {<<"/", "a", "p", "i", "/", "l", "o", "g", "s">>,
     <<"/", "a", "b", "o", "u", "t">>,
     <<"/", "h", "e", "a", "l", "t", "h">>}

\* The call of the try block that throws, if any does: the calls the block
\* makes are checkRateLimit, NextResponse.next, the setting of the response
\* headers and logEdgeHttpRequest.
Faults == {"none", "checkRateLimit", "next", "headers", "logEdgeHttpRequest"}

\* what the try block has produced when an error is thrown inside it
Thrown(recs) ==
    [thrown |-> TRUE, records |-> recs, status |-> 0, body |-> "none", requestId |-> 0,
     secured |-> FALSE, logged |-> "none", level |-> "none"]

\* the try block of middleware(): the rate limit for the API routes (429 when
\* refused), NextResponse.next(), the x-request-id and security headers, the
\* request log unless the path is on the skip list
TryBlock(context, pathname, ip, fault, recs, now) ==
    LET isApi == StartsWith(pathname, ApiPrefix)
        limit == checkRateLimit(recs, ip, [windowMs |-> RATE_LIMIT_WINDOW,
                                            maxRequests |-> RATE_LIMIT_MAX], now)
        after == IF isApi THEN limit.records ELSE recs
    IN  IF isApi /\ fault = "checkRateLimit" THEN Thrown(recs)
        ELSE IF isApi /\ ~limit.allowed
        THEN [thrown |-> FALSE, records |-> after, status |-> 429,
              body |-> "Too many requests", requestId |-> 0, secured |-> FALSE,
              logged |-> "none", level |-> "none"]
        ELSE IF fault \in {"next", "headers"} THEN Thrown(after)
        ELSE IF shouldSkipPath(pathname)
        THEN [thrown |-> FALSE, records |-> after, status |-> 200, body |-> "next",
              requestId |-> context.requestId, secured |-> TRUE,
              logged |-> "none", level |-> "none"]
        ELSE IF fault = "logEdgeHttpRequest" THEN Thrown(after)
        ELSE [thrown |-> FALSE, records |-> after, status |-> 200, body |-> "next",
              requestId |-> context.requestId, secured |-> TRUE,
              logged |-> "logEdgeHttpRequest", level |-> HttpLevel(200)]

\* a middleware without its catch block
CatchBlock_Rethrow(context, attempt) == attempt

\* the catch block of middleware(): logEdgeError, then the 500 response with
\* the x-request-id of the context and the security headers
CatchBlock(context, attempt) ==
    IF attempt.thrown
    THEN [thrown |-> FALSE, records |-> attempt.records, status |-> 500,
          body |-> "Internal Server Error", requestId |-> context.requestId,
          secured |-> TRUE, logged |-> "logEdgeError", level |-> "error"]
    ELSE attempt

\* middleware(request): the context is extracted (each request gets a request
\* id of its own), then the try block runs under the catch block
Middleware(pathname, ip, fault) ==
    /\ requests < MaxRequests
    /\ requests' = requests + 1
    /\ LET context == [requestId |-> requests + 1]
           result == CatchBlock(context,
                                TryBlock(context, pathname, ip, fault, records, clock))
       IN  /\ records' = result.records
           /\ response' = [status |-> result.status, body |-> result.body,
                           requestId |-> result.requestId, secured |-> result.secured,
                           thrown |-> result.thrown, logged |-> result.logged,
                           level |-> result.level]
           /\ edgeOut' = IF result.logged = "none" THEN edgeOut
                         ELSE EdgeWrite(edgeOut, result.level)
    /\ UNCHANGED <<transportVars, envVars, facadeCalls, lastCall, purgeVars, clock,
                   rateOpts, rateCalls, hookVars>>

\* the instants at which requests arrive
RequestInstants == {0, RATE_LIMIT_WINDOW, RATE_LIMIT_WINDOW + 1}

MiddlewareNext ==
    \/ \E pathname \in Paths, ip \in Identifiers, fault \in Faults :
          Middleware(pathname, ip, fault)
    \/ Advance(RequestInstants)

\* the map of a process that has, at instant 0, admitted RATE_LIMIT_MAX - 1
\* API requests of one address
BusyRecords ==
    [i \in {"10.0.0.1"} |-> [count |-> RATE_LIMIT_MAX - 1, expires |-> RATE_LIMIT_WINDOW]]

\* The middleware specification: a fresh process or one that is one request
\* short of the rate limit for an address; any NODE_ENV and EDGE_LOG_ENDPOINT,
\* LOG_LEVEL unset or "error".
MiddlewareInit ==
    /\ clock = 0
    /\ records \in {NoRecords, BusyRecords}
    /\ rateOpts = [windowMs |-> RATE_LIMIT_WINDOW, maxRequests |-> RATE_LIMIT_MAX]
    /\ rateCalls = << >>
    /\ requests = 0
    /\ response = NoResponse
    /\ cache = NoEntry
    /\ hook = Unmounted
    /\ fetches = 0
    /\ events = {}
    /\ batchSize = DefaultBatchSize
    /\ nodeEnv \in NodeEnvs
    /\ logLevelEnv \in {Undefined, "error"}
    /\ edgeEndpoint \in BOOLEAN
    /\ Start
    /\ FacadeStart
    /\ PurgeStart

MiddlewareSpec == MiddlewareInit /\ [][MiddlewareNext]_vars

\* ----------------------------------------------------------- useDynamicContent
MaxFetches == 2         \* number of fetches of /api/generate-content in one behaviour

\* loadFromCache: `const maxAge = 30 * 60 * 1000`
maxAge == 30 * 60 * 1000

\* an entry that is still used when it is exactly maxAge old
CacheFresh_Inclusive(cacheAge) == cacheAge <= maxAge

\* `if (cacheAge < maxAge)`
CacheFresh(cacheAge) == cacheAge < maxAge

\* loadFromCache(): the entry when there is one and it is fresh; no entry
\* gives null; an entry that is too old is removed and gives null.  Returns
\* what the caller gets and what localStorage holds afterwards.
loadFromCache(entry, now) ==
    IF ~entry.present THEN [data |-> NoEntry, cache |-> entry]
    ELSE IF CacheFresh(now - entry.cachedAt) THEN [data |-> entry, cache |-> entry]
    ELSE [data |-> NoEntry, cache |-> NoEntry]

\* fetchContent up to its first await: setIsLoading(true), setError(null),
\* then the fetch is issued
StartFetch(state, method) ==
    [state EXCEPT !.isLoading = TRUE, !.error = FALSE, !.pending = method]

\* the mount effect: the cached entry if loadFromCache returns one,
\* otherwise fetchContent()
Mount ==
    /\ ~hook.mounted
    /\ LET cached == loadFromCache(cache, clock)
       IN  /\ cache' = cached.cache
           /\ IF cached.data.present
              THEN /\ hook' = [mounted |-> TRUE, content |-> cached.data.content,
                               isLoading |-> FALSE, error |-> FALSE, pending |-> "none",
                               source |-> "cache"]
                   /\ fetches' = fetches
              ELSE /\ fetches < MaxFetches
                   /\ hook' = StartFetch([Unmounted EXCEPT !.mounted = TRUE], "GET")
                   /\ fetches' = fetches + 1
    /\ UNCHANGED <<transportVars, envVars, facadeVars, purgeVars, clock, rateVars,
                   middlewareVars>>

\* the answers to a fetch: a successful body, an HTTP error status, a body
\* with success false, a network failure
FetchOutcomes == {"ok", "httpError", "notSuccess", "networkError"}

\* fetchContent after its fetch was answered.  A successful answer sets the
\* content and writes the cache entry with Date.now(); any failure sets the
\* error and falls back to loadFromCache; isLoading ends false either way.
FetchResolve(outcome) ==
    /\ hook.pending # "none"
    /\ IF outcome = "ok"
       THEN /\ hook' = [hook EXCEPT !.content = fetches, !.isLoading = FALSE,
                                    !.pending = "none", !.source = "network"]
            /\ cache' = [present |-> TRUE, content |-> fetches, cachedAt |-> clock]
       ELSE LET cached == loadFromCache(cache, clock)
            IN  /\ cache' = cached.cache
                /\ hook' = IF cached.data.present
                           THEN [hook EXCEPT !.content = cached.data.content,
                                             !.error = FALSE, !.isLoading = FALSE,
                                             !.pending = "none", !.source = "cache"]
                           ELSE [hook EXCEPT !.error = TRUE, !.isLoading = FALSE,
                                             !.pending = "none"]
    /\ UNCHANGED <<transportVars, envVars, facadeVars, purgeVars, clock, rateVars,
                   middlewareVars, fetches>>

\* regenerate(): remove the cache entry, then fetchContent(true)
Regenerate ==
    /\ hook.mounted
    /\ hook.pending = "none"
    /\ fetches < MaxFetches
    /\ cache' = NoEntry
    /\ hook' = StartFetch(hook, "POST")
    /\ fetches' = fetches + 1
    /\ UNCHANGED <<transportVars, envVars, facadeVars, purgeVars, clock, rateVars,
                   middlewareVars>>

\* the component using the hook goes away (a page change or a reload)
Unmount ==
    /\ hook.mounted
    /\ hook.pending = "none"
    /\ hook' = Unmounted
    /\ UNCHANGED <<transportVars, envVars, facadeVars, purgeVars, clock, rateVars,
                   middlewareVars, cache, fetches>>

\* the instants of the page views: around the expiry of an entry cached at
\* instant 0 and of one cached at instant maxAge
HookInstants == {0, 1, maxAge - 1, maxAge, maxAge + 1, 2 * maxAge - 1, 2 * maxAge}

HookNext ==
    \/ Mount
    \/ \E outcome \in FetchOutcomes : FetchResolve(outcome)
    \/ Regenerate
    \/ Unmount
    \/ Advance(HookInstants)

\* The hook specification: a browser with an empty localStorage in which the
\* component is mounted and unmounted over time.
HookInit ==
    /\ clock = 0
    /\ records = NoRecords
    /\ rateOpts = [windowMs |-> 0, maxRequests |-> 0]
    /\ rateCalls = << >>
    /\ requests = 0
    /\ response = NoResponse
    /\ cache = NoEntry
    /\ hook = Unmounted
    /\ fetches = 0
    /\ events = {}
    /\ batchSize = DefaultBatchSize
    /\ DevelopmentEnv
    /\ Start
    /\ FacadeStart
    /\ PurgeStart

HookSpec == HookInit /\ [][HookNext]_vars

\* ----------------------------------------------------------- derived notions
BufferedIds == Range(Ids(logBatch))

SliceIds(c) == Range(Ids(flushes[c].slice))

\* the flush cycles that have not returned yet
InFlight == {c \in DOMAIN flushes : flushes[c].pc # "done"}

\* number of positions of the buffer, and of the drained slices, holding id
BufCount(id) == Cardinality({i \in DOMAIN logBatch : logBatch[i].id = id})

DrainCount(id) ==
    Cardinality({p \in (DOMAIN flushes) \X RecordIds :
                    /\ p[2] \in DOMAIN flushes[p[1]].slice
                    /\ flushes[p[1]].slice[p[2]].id = id})

InvalidEvent(info) == Falsy(info.level) \/ Falsy(info.message)

\* ----------------------------------------------------------- claims

\* C1: a raw event whose level or message is missing or empty is rejected by
\* log(): the buffer (and the flush cycles) after the call equal those before
\* it and an error event is emitted; so every buffered record has a non-empty
\* level and a non-empty message.
C1_RequiredFields ==
    /\ [](\A i \in DOMAIN logBatch :
             ~Falsy(logBatch[i].level) /\ ~Falsy(logBatch[i].message))
    /\ [][\A info \in RawEvents :
             (InvalidEvent(info) /\ Log(info)) =>
                 /\ logBatch' = logBatch
                 /\ flushes' = flushes
                 /\ validationErrors' = validationErrors + 1]_vars

\* an invalid event has been rejected while a record sits in the buffer
C1_Witness == validationErrors >= 1 /\ Len(logBatch) >= 1

\* the individual inserts of cycle c that the store refused
SingleFailures(c) ==
    {i \in DOMAIN flushes[c].slice :
        i + 1 \in DOMAIN flushes[c].answers /\ ~flushes[c].answers[i + 1]}

\* the case of C2: cycle c has returned, its bulk insert failed and exactly one
\* of its individual inserts failed
OneBadRecord(c) ==
    /\ flushes[c].pc = "done"
    /\ flushes[c].bulk = "failed"
    /\ Cardinality(SingleFailures(c)) = 1

C3_CloseReturnsPersisted ==
    [][Close => \A i \in DOMAIN logBatch : store'[logBatch[i].id] >= 1]_vars

\* C4, as stated: at most one flush cycle is in flight at any time.
C4_SingleFlushInFlight == Cardinality(InFlight) <= 1

\* C5: no record is in two drained slices, and no record is lost between add
\* and drain: every accepted record is at exactly one place, a position of the
\* buffer or a position of exactly one slice, and a drain takes the whole
\* buffer (nothing added before it stays behind).
C5_AtomicDrain ==
    /\ [](\A id \in RecordIds :
             BufCount(id) + DrainCount(id) = (IF id \in Range(accepted) THEN 1 ELSE 0))
    /\ [][Len(flushes') > Len(flushes) => logBatch' = << >>]_vars

\* two flush cycles overlap while the buffer already holds a newer record
C5_Witness == Cardinality(InFlight) >= 2 /\ Len(logBatch) >= 1

\* the two fates of a record: persisted (one row, never reported), or retried
\* individually and reported as failed (no row, one report)
Persisted(id) == store[id] = 1 /\ failedRecords[id] = 0

ReportedFailed(id) == store[id] = 0 /\ failedRecords[id] = 1

\* C6: while the timer keeps firing (it is never cleared) and every store call
\* resolves, every record that enters the buffer eventually reaches exactly
\* one of two fates: persisted, or individually retried and reported failed.
C6_NoSilentDrop ==
    \A id \in RecordIds :
        ([]timerActive) => ((id \in BufferedIds) ~> (Persisted(id) \/ ReportedFailed(id)))

\* one record has been persisted and another reported failed, timer running
C6_Witness ==
    /\ timerActive
    /\ \E a, b \in RecordIds : Persisted(a) /\ ReportedFailed(b)

\* the bulk insert issued by cycle c (the first call it issued)
BulkCall(c) == flushes[c].issued[1]

\* C7: every size-triggered flush issues one bulk call of exactly batchSize
\* records; and as long as only size triggers have drained the buffer, k
\* accepted records have caused exactly k \div batchSize flush cycles, one bulk
\* call each, and k % batchSize records are still buffered.
C7_SizeTrigger ==
    /\ \A c \in DOMAIN flushes :
          flushes[c].trigger = "size" =>
              /\ flushes[c].bulk # "skipped"
              /\ Len(BulkCall(c)) = batchSize
              /\ BulkCall(c) = Ids(flushes[c].slice)
    /\ (\A c \in DOMAIN flushes : flushes[c].trigger = "size") =>
          /\ Len(flushes) = Len(accepted) \div batchSize
          /\ Len(logBatch) = Len(accepted) % batchSize

\* a size-triggered flush has happened and a remainder is buffered, with no
\* other trigger having drained anything
C7_Witness ==
    /\ Len(flushes) >= 1
    /\ \A c \in DOMAIN flushes : flushes[c].trigger = "size"
    /\ Len(logBatch) >= 1

\* C8: with batchSize > 1, a timer tick that finds exactly one record buffered
\* starts exactly one flush cycle, whose single store call is a bulk insert of
\* exactly that record, and empties the buffer; a timer tick that finds the
\* buffer empty issues no store call.
C8_TimerTrigger ==
    [][(TimerTick /\ batchSize > 1) =>
         /\ Len(logBatch) = 1 =>
               /\ Len(flushes') = Len(flushes) + 1
               /\ \A c \in DOMAIN flushes : flushes'[c] = flushes[c]
               /\ flushes'[Len(flushes')].issued = <<Ids(logBatch)>>
               /\ flushes'[Len(flushes')].pc = "bulk"
               /\ logBatch' = << >>
         /\ Len(logBatch) = 0 => flushes' = flushes]_vars

\* the timer has flushed a lone record and is still running on an empty buffer
C8_Witness ==
    /\ batchSize > 1
    /\ timerActive
    /\ logBatch = << >>
    /\ \E c \in DOMAIN flushes :
          flushes[c].trigger = "timer" /\ Len(flushes[c].slice) = 1

\* C9: a close() that follows another close() with no log() in between starts
\* no flush cycle, issues no store call, emits no error and changes neither
\* the buffer nor the store; so no record is submitted by two flush cycles.
C9_IdempotentClose ==
    /\ [][(Close /\ cleanCloses >= 1) =>
             UNCHANGED <<logBatch, flushes, store, failedRecords, validationErrors>>]_vars
    /\ [](\A id \in RecordIds :
             Cardinality({c \in DOMAIN flushes : id \in Range(BulkCall(c))}) <= 1)

\* close() was called twice in a row after the first one had flushed records
C9_Witness ==
    /\ cleanCloses >= 2
    /\ \E c \in DOMAIN flushes : flushes[c].trigger = "close"

RECURSIVE Flatten(_)
\* the concatenation of a sequence of sequences
Flatten(ss) == IF ss = << >> THEN << >> ELSE Head(ss) \o Flatten(Tail(ss))

\* C10: the list handed to each bulk insert is the buffer in insertion order:
\* the bulk calls taken in drain order, followed by the buffer, spell out the
\* accepted records in the order log() accepted them.
C10_FifoWithinBatch ==
    /\ \A c \in DOMAIN flushes : flushes[c].bulk # "skipped"
    /\ Flatten([c \in DOMAIN flushes |-> BulkCall(c)]) \o Ids(logBatch) = accepted

\* a bulk insert of at least two records has been issued
C10_Witness == \E c \in DOMAIN flushes : Len(BulkCall(c)) >= 2

\* a store call of cycle c failed, or its validation threw before any call
CycleFailed(c) ==
    \/ flushes[c].bulk = "skipped"
    \/ \E k \in DOMAIN flushes[c].answers : ~flushes[c].answers[k]

BulkSubmissions(id) ==
    {c \in DOMAIN flushes :
        flushes[c].bulk # "skipped" /\ id \in Range(flushes[c].issued[1])}

\* the individual inserts of record id, as <<cycle, position in issued>>
SingleSubmissions(id) ==
    {p \in (DOMAIN flushes) \X (1..(MaxLogs + 1)) :
        /\ p[2] \in DOMAIN flushes[p[1]].issued
        /\ p[2] > 1 \/ flushes[p[1]].bulk = "skipped"
        /\ flushes[p[1]].issued[p[2]] = <<id>>}

\* C13: a record is submitted to the store at most twice, once in one bulk
\* insert and at most once as an individual insert; when the bulk insert of
\* a cycle failed and the cycle has returned, each of its records has had
\* exactly one individual insert; and a record that a flush has drained is
\* never in the buffer again.
C13_RetryOnceThenDrop ==
    /\ [](\A id \in RecordIds :
             /\ Cardinality(BulkSubmissions(id)) <= 1
             /\ Cardinality(SingleSubmissions(id)) <= 1)
    /\ [](\A c \in DOMAIN flushes :
             (flushes[c].pc = "done" /\ flushes[c].bulk = "failed") =>
                 \A id \in SliceIds(c) : Cardinality(SingleSubmissions(id)) = 1)
    /\ [][\A id \in RecordIds : DrainCount(id) >= 1 => BufCount(id)' = 0]_vars

\* a record was refused twice (in its bulk insert and individually) and flush
\* cycles have started after the one that dropped it
C13_Witness ==
    \E c \in DOMAIN flushes :
        /\ flushes[c].pc = "done"
        /\ flushes[c].bulk = "failed"
        /\ \E id \in SliceIds(c) : failedRecords[id] = 1
        /\ c < Len(flushes)

CycleOf(id) == CHOOSE c \in DOMAIN flushes : id \in SliceIds(c)

\* where record id is in its lifecycle: "none" (not created, or rejected by
\* the validation), "buffered", "flushing" (drained, bulk insert pending),
\* "retrying" (bulk insert failed, fallback pass running), "persisted",
\* "failed" (its individual insert was refused and reported)
Stage(id) ==
    IF store[id] >= 1 THEN "persisted"
    ELSE IF failedRecords[id] >= 1 THEN "failed"
    ELSE IF BufCount(id) >= 1 THEN "buffered"
    ELSE IF DrainCount(id) = 0 THEN "none"
    ELSE IF flushes[CycleOf(id)].pc = "bulk" THEN "flushing"
    ELSE "retrying"

\* the moves of the lifecycle
StageMoves ==
    {<<"none", "buffered">>, <<"none", "flushing">>, <<"buffered", "flushing">>,
     <<"flushing", "persisted">>, <<"flushing", "retrying">>,
     <<"retrying", "persisted">>, <<"retrying", "failed">>}

Terminal(id) == Stage(id) \in {"persisted", "failed"}

\* C15: a record only moves forward along created/validated/buffered,
\* flushing, then persisted or retried individually, then persisted or
\* failed; a persisted or failed record is no longer in the buffer, and no
\* later action submits it to the store again or changes its fate.
C15_RecordLifecycle ==
    /\ [](\A id \in RecordIds : Terminal(id) => BufCount(id) = 0 /\ DrainCount(id) = 1)
    /\ [][\A id \in RecordIds :
             /\ Stage(id)' = Stage(id) \/ <<Stage(id), Stage(id)'>> \in StageMoves
             /\ Terminal(id) =>
                   /\ Stage(id)' = Stage(id)
                   /\ store'[id] = store[id]
                   /\ failedRecords'[id] = failedRecords[id]
                   /\ BulkSubmissions(id)' = BulkSubmissions(id)
                   /\ SingleSubmissions(id)' = SingleSubmissions(id)]_vars

\* one record is persisted and another failed, and a timer flush, a close
\* flush and a size flush have all happened besides
C15_Witness ==
    /\ \E a, b \in RecordIds : Stage(a) = "persisted" /\ Stage(b) = "failed"
    /\ cleanCloses >= 1
    /\ \E c \in DOMAIN flushes : flushes[c].trigger \in {"timer", "signal"}

\* a call of log() with raw event e has accepted it: no error event, and the
\* record of this call is in the buffer or in a drained slice
AcceptedBy(e) ==
    Log(e) =>
        /\ validationErrors' = validationErrors
        /\ accepted' = Append(accepted, calls + 1)
        /\ \E r \in AllRecords' : r.id = calls + 1

\* C16: a raw event with level and message present is accepted whatever its
\* requestId and userId; its record carries the identifier unchanged when it
\* is a valid UUID and has no such field otherwise.
C16_MalformedUuidOmitted ==
    /\ [](\A e \in events, r \in AllRecords :
             /\ r.requestId = (IF e.requestId \in ValidUuids THEN e.requestId ELSE NoValue)
             /\ r.userId = (IF e.userId \in ValidUuids THEN e.userId ELSE NoValue))
    /\ [][\A e \in events :
             ~InvalidEvent(e) => AcceptedBy(e)]_vars

\* the record of an event with a malformed requestId sits in the buffer or has
\* been drained, without the identifier
C16_Witness ==
    \E e \in events, r \in AllRecords :
        e.requestId \in MalformedUuids /\ r.requestId = NoValue

\* the length limits of the columns, by field
LengthLimit ==
    [sessionId |-> MaxSessionIdLen, method |-> MaxMethodLen,
     statusCode |-> MaxStatusCodeLen, responseTime |-> MaxResponseTimeLen,
     errorCode |-> MaxErrorCodeLen, version |-> MaxVersionLen]

\* C17: every record handed to the store has requestId and userId absent or a
\* valid UUID, sessionId of at most 255 characters, method of at most 10,
\* statusCode of at most 5, responseTime of at most 20, errorCode and version
\* of at most 50.
C17_StoreBoundary ==
    \A r \in HandedToStore :
        /\ r.requestId \in ValidUuids \cup {NoValue}
        /\ r.userId \in ValidUuids \cup {NoValue}
        /\ \A f \in DOMAIN LengthLimit : r[f] = NoValue \/ Len(r[f]) <= LengthLimit[f]

\* a record built from an event with an oversize field or a malformed
\* identifier has been committed by the store
C17_Witness ==
    \E e \in events, r \in HandedToStore :
        /\ store[r.id] = 1
        /\ \/ \E f \in DOMAIN LengthLimit : e[f] # NoValue /\ Len(e[f]) > LengthLimit[f]
           \/ e.userId \in MalformedUuids

\* logLevelEnum
LogLevels == {"error", "warn", "info", "http", "verbose", "debug", "silly"}

\* C18, as stated: every record in the buffer or handed to the store has one
\* of the 7 enumerated levels.
C18_LevelEnumerated == \A r \in AllRecords : r.level \in LogLevels

\* the value of FullEvent for field f reaches the record unchanged
Unaffected(e, r, f) == e[f] = FullEvent[f] => r[f] = FullEvent[f]

\* C19, as stated: each of sessionId, method, url, statusCode, responseTime,
\* stack, errorCode and version has a maximum length, so the longest value
\* tried for it is omitted from the record.
C19_EveryFieldCapped ==
    \A e \in events, r \in AllRecords :
        /\ \A f \in DOMAIN LengthLimit :
              (e[f] # NoValue /\ Len(e[f]) > LengthLimit[f]) => r[f] = NoValue
        /\ \A f \in {"url", "stack"} :
              (e[f] # NoValue /\ Len(e[f]) >= HugeLen) => r[f] = NoValue

\* C19, amended: sessionId (255), method (10), statusCode (5), responseTime
\* (20), errorCode (50) and version (50) are kept unchanged up to their limit
\* and omitted beyond it, never truncated; url and stack are kept unchanged
\* whatever their length; the event is accepted and its other fields reach
\* the record as they would without the oversize value.
C19_LimitedFieldsOmitted ==
    /\ [](\A e \in events, r \in AllRecords :
             /\ \A f \in DOMAIN LengthLimit :
                   /\ r[f] = (IF e[f] \notin {NoValue, << >>} /\ Len(e[f]) <= LengthLimit[f]
                              THEN e[f] ELSE NoValue)
                   /\ \A g \in OptionalFields \ {f} : Unaffected(e, r, g)
             /\ \A f \in {"url", "stack"} :
                   /\ r[f] = (IF e[f] \notin {NoValue, << >>} THEN e[f] ELSE NoValue)
                   /\ \A g \in OptionalFields \ {f} : Unaffected(e, r, g)
             /\ r.level = e.level
             /\ r.message = e.message)
    /\ [][\A e \in events :
             ~InvalidEvent(e) => AcceptedBy(e)]_vars

\* the record of an event with a field one character over its limit sits in
\* the buffer or has been drained, without that field
C19_Witness ==
    \E e \in events, r \in AllRecords :
        \E f \in DOMAIN LengthLimit :
            e[f] # NoValue /\ Len(e[f]) = LengthLimit[f] + 1 /\ r[f] = NoValue

\* C20: a stack of any length, up to the longest tried (5000 characters),
\* reaches the record in full, and so does it reach the store: the record in
\* the buffer and the record handed to the store carry the whole text.
C20_StackUncapped ==
    \A e \in events, r \in AllRecords :
        e.stack \notin {NoValue, << >>} =>
            /\ r.stack = e.stack
            /\ Len(r.stack) = Len(e.stack)

\* the record of an event with a stack of HugeLen characters has been
\* committed by the store with the whole stack
C20_Witness ==
    \E e \in events, r \in HandedToStore :
        /\ Len(e.stack) >= HugeLen
        /\ store[r.id] = 1
        /\ r.stack = e.stack

\* the instants a timestamp column can hold
ValidInstants == {CreationTime, FlushTime} \cup ParseableDates

\* C21: every record of a bulk insert carries a valid timestamp: the creation
\* time when the raw event has none, the instant the raw event names when it
\* can be parsed, and the time of the flush when it cannot; an event with an
\* unparseable timestamp is accepted like any other.
C21_ValidTimestamp ==
    /\ [](\A e \in events, c \in DOMAIN flushes :
             flushes[c].bulk # "skipped" =>
                 \A r \in Range(flushes[c].slice) :
                     /\ r.timestamp \in ValidInstants
                     /\ e.timestamp \in {Undefined, ""} => r.timestamp = CreationTime
                     /\ e.timestamp \in ParseableDates => r.timestamp = e.timestamp
                     /\ e.timestamp \notin ParseableDates \cup {Undefined, ""}
                           => r.timestamp = FlushTime)
    /\ [][\A e \in events : ~InvalidEvent(e) => AcceptedBy(e)]_vars

\* a record whose raw timestamp was no date has been committed by the bulk
\* insert of its cycle, with the time of the flush
C21_Witness ==
    \E e \in events, c \in DOMAIN flushes :
        /\ e.timestamp = "yesterday"
        /\ flushes[c].bulk = "ok"
        /\ \E r \in Range(flushes[c].slice) : r.timestamp = FlushTime /\ store[r.id] = 1

\* C22: a raw event whose metadata cannot be serialized is accepted; its
\* record has no meta field and every other field as it would otherwise be;
\* metadata that serializes unchanged is kept.
C22_UnserializableMetaOmitted ==
    /\ [](\A e \in events, r \in AllRecords :
             /\ e.meta = "circular" =>
                   /\ r.meta = Undefined
                   /\ r.level = e.level /\ r.message = e.message
                   /\ \A g \in OptionalFields : Unaffected(e, r, g)
             /\ e.meta = "plain" => r.meta = "plain")
    /\ [][\A e \in events : e.meta = "circular" => AcceptedBy(e)]_vars

\* the record of an event with circular metadata has been handed to the store
C22_Witness ==
    \E e \in events, r \in HandedToStore : e.meta = "circular" /\ r.meta = Undefined

\* C23, as stated: a record whose raw event names neither environment nor
\* service has environment "development" and service "app".
C23_DefaultsAsStated ==
    \A e \in events, r \in AllRecords :
        (e.environment = Undefined /\ e.service = Undefined) =>
            r.environment = "development" /\ r.service = "app"

\* C23, amended: every record has environment and service set; a supplied
\* value is kept; a missing environment is NODE_ENV when that is set and
\* "development" otherwise; a missing service is "nextjs-app".
C23_EnvironmentAndService ==
    \A e \in events, r \in AllRecords :
        /\ r.environment \notin {Undefined, ""}
        /\ r.service \notin {Undefined, ""}
        /\ e.environment \notin {Undefined, ""} => r.environment = e.environment
        /\ e.service \notin {Undefined, ""} => r.service = e.service
        /\ (e.environment \in {Undefined, ""} /\ nodeEnv \notin {Undefined, ""})
              => r.environment = nodeEnv
        /\ (e.environment \in {Undefined, ""} /\ nodeEnv \in {Undefined, ""})
              => r.environment = "development"
        /\ e.service \in {Undefined, ""} => r.service = "nextjs-app"

\* with NODE_ENV not set, the record of an event that names neither field
\* has been handed to the store
C23_Witness ==
    \E e \in events, r \in HandedToStore :
        /\ e.environment = Undefined /\ e.service = Undefined
        /\ nodeEnv = Undefined
        /\ r.environment = "development"

\* the facade functions that log an HTTP request
HttpFunctions == {"request.http", "logHttpRequest", "logEdgeHttpRequest"}

\* the functions of a request-scoped logger
RequestFunctions ==
    {"request.error", "request.warn", "request.info", "request.debug", "request.http"}

EdgeFunctions ==
    {"edge.debug", "edge.info", "edge.warn", "edge.error", "logEdgeHttpRequest"}

\* C24, as stated: the level with which an HTTP convenience function logs is
\* error for a status code of 500 or more, warn for 400 to 499, info otherwise.
C24_HttpLevelFromStatus ==
    lastCall.fn \in HttpFunctions =>
        lastCall.level = (IF lastCall.status >= 500 THEN "error"
                          ELSE IF lastCall.status >= 400 THEN "warn"
                          ELSE "info")

\* the record built by the last call of the facade
LastRecord == CHOOSE r \in AllRecords : r.id = calls

\* C25, as stated: the record of every call of a request-scoped logger that
\* reaches the transport carries the request context, whatever the metadata.
C25_ContextCarried ==
    (lastCall.fn \in RequestFunctions /\ lastCall.reaches) =>
        /\ \E r \in AllRecords : r.id = calls
        /\ \A f \in DOMAIN Ctx : LastRecord[f] = Ctx[f]

\* the level of the last server-side call is less severe than the minimum
\* configured for the logger or than the one configured for the transport
ServerBelowMin(level) ==
    \/ NpmLevels[level] > NpmLevels[IF logLevelEnv \in {Undefined, ""} THEN "info" ELSE logLevelEnv]
    \/ NpmLevels[level] > NpmLevels["info"]

\* the level of the last edge call is less severe than the minimum level
EdgeBelow(level) ==
    EdgeLevels[level] <
        EdgeLevels[IF logLevelEnv \in {"debug", "warn", "error"} THEN logLevelEnv ELSE "info"]

C27_SignalInvokesClose ==
    [][Signal =>
          /\ ~timerActive'
          /\ logBatch' = << >>
          /\ logBatch # << >> => Len(flushes') = Len(flushes) + 1]_vars

\* the flush cycles the timer has started
TimerCycles == {c \in DOMAIN flushes : flushes[c].trigger = "timer"}

\* C28: close() cancels the timer for good (no flush cycle is started by the
\* timer once close() has been called), and the flush it starts takes every
\* record buffered at the time of the call and hands them all to the store
\* in its bulk insert, in the same step.
C28_CloseCancelsAndFlushes ==
    /\ [][Close => ~timerActive']_vars
    /\ [][~timerActive => (~timerActive' /\ TimerCycles' = TimerCycles)]_vars
    /\ [][(Close /\ logBatch # << >>) =>
             /\ Len(flushes') = Len(flushes) + 1
             /\ flushes'[Len(flushes')].trigger = "close"
             /\ flushes'[Len(flushes')].slice = logBatch
             /\ flushes'[Len(flushes')].issued = <<Ids(logBatch)>>
             /\ logBatch' = << >>]_vars

\* after timer flushes, close() has flushed two buffered records and the
\* timer is off
C28_Witness ==
    /\ ~timerActive
    /\ TimerCycles # {}
    /\ \E c \in DOMAIN flushes :
          flushes[c].trigger = "close" /\ Len(flushes[c].slice) >= 2

\* C29: a timer tick, a close() or a shutdown signal that finds the buffer
\* empty starts no flush cycle, issues no store call, emits no error event
\* and leaves the buffer and the store as they are.
C29_EmptyFlushNoop ==
    [][((TimerTick \/ Close \/ Signal) /\ logBatch = << >>) =>
          UNCHANGED <<logBatch, flushes, store, failedRecords, validationErrors>>]_vars

\* close() has run on a transport that never buffered anything and the timer
\* and signals have left no trace either
C29_Witness ==
    /\ cleanCloses >= 1
    /\ accepted = << >>
    /\ flushes = << >>

\* C30, as stated: a successful DELETE with N days removes every row older
\* than N days and leaves every row newer than that.
C30_PurgesOlderRows ==
    purge.status = 200 =>
        \A age \in purge.before :
            /\ age > purge.cutoff => age \notin rows
            /\ age < purge.cutoff => age \in rows

\* the individual inserts cycle c has issued so far, in the order of issue
SingleCalls(c) ==
    IF flushes[c].bulk = "skipped"
    THEN flushes[c].issued
    ELSE SubSeq(flushes[c].issued, 2, Len(flushes[c].issued))

\* C33: in the fallback pass after a failed bulk insert, the individual
\* inserts issued so far are those of the first records of the batch, one
\* each, in the batch's order; at most one of them is unanswered (none once
\* the pass has returned); and the pass returns only after the last record of
\* the batch had its attempt, whatever the store answered to the earlier ones.
C33_SequentialFallback ==
    \A c \in DOMAIN flushes :
        flushes[c].bulk = "failed" =>
            LET f == flushes[c]
            IN  /\ f.idx \in 1..Len(f.slice)
                /\ SingleCalls(c) = [k \in 1..f.idx |-> <<f.slice[k].id>>]
                /\ Len(f.issued) - Len(f.answers) = (IF f.pc = "done" THEN 0 ELSE 1)
                /\ f.pc = "done" => f.idx = Len(f.slice)

\* a fallback pass has returned in which the first record was refused and a
\* later record of the batch was then inserted
C33_Witness ==
    \E c \in DOMAIN flushes :
        /\ flushes[c].bulk = "failed"
        /\ flushes[c].pc = "done"
        /\ Len(flushes[c].slice) >= 2
        /\ ~flushes[c].answers[2]
        /\ flushes[c].answers[Len(flushes[c].answers)]

\* number of rows in the store
RECURSIVE RowCount(_)
RowCount(ids) ==
    IF ids = {} THEN 0
    ELSE LET id == CHOOSE x \in ids : TRUE IN store[id] + RowCount(ids \ {id})

\* C36: with a store that commits all the records of a call or none, no
\* record is ever held by more than one row, whatever the interleaving of
\* log(), the flush triggers and the store's answers; a row is only ever
\* written for a record that had none.
C36_NoDuplicateRows ==
    /\ [](\A id \in RecordIds : store[id] <= 1)
    /\ [](RowCount(RecordIds) <= Len(accepted))
    /\ [][\A id \in RecordIds : store'[id] # store[id] =>
             (store[id] = 0 /\ store'[id] = 1)]_vars

\* a flush is in its fallback pass, having persisted its first record, while
\* a flush started after it has already persisted its batch in one bulk insert
C36_Witness ==
    \E c, d \in DOMAIN flushes :
        /\ c < d
        /\ flushes[c].pc = "retry"
        /\ flushes[c].idx >= 2
        /\ store[flushes[c].slice[1].id] = 1
        /\ flushes[d].bulk = "ok"
        /\ \A i \in DOMAIN flushes[d].slice : store[flushes[d].slice[i].id] = 1

\* C37: when a log() call returns, the buffer holds fewer than batchSize
\* records, and so it does in every reachable state, also while flushes are
\* awaiting the store or running their fallback pass.
C37_BufferBelowBatchSize ==
    /\ [](Len(logBatch) < batchSize)
    /\ [][(\E info \in events : Log(info)) => Len(logBatch') < batchSize]_vars

\* log() has returned leaving batchSize - 1 records in the buffer while an
\* earlier flush is in the fallback pass of its failed bulk insert
C37_Witness ==
    /\ Len(logBatch) >= 1
    /\ Len(logBatch) = batchSize - 1
    /\ \E c \in DOMAIN flushes : flushes[c].pc = "retry"

AcceptedAt(id) == CHOOSE i \in DOMAIN accepted : accepted[i] = id

\* C39: the flush cycles are in drain order; every record of an earlier cycle
\* was accepted before every record of a later one; and a flush issues its
\* bulk insert in the step that drains the buffer, when every earlier cycle
\* has issued its own, so the bulk inserts are issued in drain order.
C39_BulkCallsInDrainOrder ==
    /\ [](\A c, d \in DOMAIN flushes :
             c < d =>
                 \A a \in SliceIds(c), b \in SliceIds(d) : AcceptedAt(a) < AcceptedAt(b))
    /\ [](\A c \in DOMAIN flushes :
             /\ Len(flushes[c].issued) >= 1
             /\ flushes[c].issued[1] = Ids(flushes[c].slice))
    /\ [][Len(flushes') > Len(flushes) =>
             /\ Len(flushes') = Len(flushes) + 1
             /\ \A c \in DOMAIN flushes : flushes'[c] = flushes[c]]_vars

\* two flushes overlap: the bulk inserts of both are awaiting the store
C39_Witness ==
    \E c, d \in DOMAIN flushes :
        /\ c < d
        /\ flushes[c].pc = "bulk"
        /\ flushes[d].pc = "bulk"

\* the calls made for one identifier, in the order they were made
RECURSIVE CallsOf(_, _)
CallsOf(made, identifier) ==
    IF made = << >> THEN << >>
    ELSE IF Head(made).identifier = identifier
    THEN <<Head(made)>> \o CallsOf(Tail(made), identifier)
    ELSE CallsOf(Tail(made), identifier)

\* The windows as the rule describes them: the first call of an identifier
\* opens a window at its time t0; a call made up to and including
\* t0 + windowMs falls in that window; the first call after that opens the next
\* window.  WindowOf gives, for call number n of the identifier's calls, the
\* number of the call that opened its window.
RECURSIVE WindowOf(_, _)
WindowOf(made, n) ==
    IF n = 1 THEN 1
    ELSE LET w == WindowOf(made, n - 1)
         IN  IF made[n].at <= made[w].at + rateOpts.windowMs THEN w ELSE n

\* C34: for each identifier, a call returns true exactly when it is among the
\* first maxRequests calls of its window (the calls made from the window's
\* first call at t0 up to and including t0 + windowMs); and a call for one
\* identifier leaves the record, and so the later results, of every other
\* identifier as they are.
C34_WindowQuota ==
    /\ [](\A identifier \in Identifiers :
             LET mine == CallsOf(rateCalls, identifier)
             IN  \A n \in DOMAIN mine :
                     mine[n].allowed <=> (n - WindowOf(mine, n) + 1 <= rateOpts.maxRequests))
    /\ [][\A identifier \in Identifiers :
             CheckRateLimit(identifier) =>
                 \A other \in (DOMAIN records) \ {identifier} :
                     other \in DOMAIN records' /\ records'[other] = records[other]]_vars

\* a call made at the very end of a window (t0 + windowMs) was refused after
\* the window's quota was used, while another identifier was admitted in
\* between
C34_Witness ==
    \E i, j, k \in DOMAIN rateCalls :
        /\ i < j /\ j < k
        /\ rateCalls[i].identifier = rateCalls[k].identifier
        /\ rateCalls[j].identifier # rateCalls[i].identifier
        /\ rateCalls[i].allowed /\ rateCalls[j].allowed /\ ~rateCalls[k].allowed
        /\ rateCalls[i].at = 1
        /\ rateCalls[k].at = 1 + rateOpts.windowMs

\* an identifier that has been refused
Refused(identifier) ==
    \E n \in DOMAIN rateCalls :
        rateCalls[n].identifier = identifier /\ ~rateCalls[n].allowed

\* C35: for an identifier that has been refused, with maxRequests >= 1, the
\* first call made strictly after the expiry time of its window returns true
\* and leaves a record with count 1 that expires windowMs after the call; a
\* call made up to the expiry time leaves the expiry time as it is, and is
\* refused when the window's quota is used up.
C35_ResetAfterExpiry ==
    [][\A identifier \in Identifiers :
          (CheckRateLimit(identifier) /\ Refused(identifier)) =>
              /\ (clock > records[identifier].expires /\ rateOpts.maxRequests >= 1) =>
                    /\ rateCalls'[Len(rateCalls')].allowed
                    /\ records'[identifier] =
                          [count |-> 1, expires |-> clock + rateOpts.windowMs]
              /\ clock <= records[identifier].expires =>
                    /\ records'[identifier].expires = records[identifier].expires
                    /\ records[identifier].count >= rateOpts.maxRequests =>
                          ~rateCalls'[Len(rateCalls')].allowed]_vars

\* an identifier was refused twice in its window, the second time at the
\* window's last instant, and was admitted again right after the expiry
C35_Witness ==
    \E i, j, k \in DOMAIN rateCalls :
        /\ i < j /\ j < k
        /\ rateCalls[i].identifier = rateCalls[j].identifier
        /\ rateCalls[j].identifier = rateCalls[k].identifier
        /\ ~rateCalls[i].allowed /\ ~rateCalls[j].allowed /\ rateCalls[k].allowed
        /\ rateCalls[j].at = rateOpts.windowMs
        /\ rateCalls[k].at = rateOpts.windowMs + 1
        /\ records[rateCalls[k].identifier].count = 1

\* C31: a request during which a call of the try block throws is answered
\* with status 500 and the body { error: "Internal Server Error" }, carrying
\* the x-request-id of the request's context, after the error was handed to
\* logEdgeError (which logs at the error level, never filtered); and no
\* request ends with middleware() throwing.
C31_MiddlewareCatchesErrors ==
    /\ [][\A pathname \in Paths, ip \in Identifiers, fault \in Faults :
             (/\ Middleware(pathname, ip, fault)
              /\ TryBlock([requestId |-> requests + 1], pathname, ip, fault,
                          records, clock).thrown) =>
                 /\ response'.status = 500
                 /\ response'.body = "Internal Server Error"
                 /\ response'.requestId = requests + 1
                 /\ ~response'.thrown
                 /\ response'.logged = "logEdgeError"
                 /\ ~EdgeBelowMin(response'.level, logLevelEnv)
                 /\ edgeOut' = EdgeWrite(edgeOut, "error")]_vars
    /\ [](~response.thrown)

\* the second request or a later one failed inside the try block and was
\* answered with 500 and its own request id, the error being written to the
\* console
C31_Witness ==
    /\ response.status = 500
    /\ response.requestId = requests
    /\ requests >= 2
    /\ response.logged = "logEdgeError"
    /\ edgeOut.console >= 1

\* the age of the cache entry
CacheAge == clock - cache.cachedAt

\* C32: on mount, an entry less than 30 minutes old is shown at once, with
\* isLoading false, no fetch issued and the entry kept; an entry 30 minutes
\* old or older is removed and a GET fetch is issued; and a fetch that
\* succeeds writes the content it brought to the cache, stamped with the
\* current time.
C32_CacheFirst ==
    /\ [][(Mount /\ cache.present /\ CacheAge < 30 * 60 * 1000) =>
             /\ hook'.content = cache.content
             /\ ~hook'.isLoading
             /\ hook'.pending = "none"
             /\ fetches' = fetches
             /\ cache' = cache]_vars
    /\ [][(Mount /\ cache.present /\ CacheAge >= 30 * 60 * 1000) =>
             /\ cache' = NoEntry
             /\ hook'.pending = "GET"
             /\ hook'.isLoading
             /\ fetches' = fetches + 1]_vars
    /\ [][FetchResolve("ok") =>
             cache' = [present |-> TRUE, content |-> hook'.content, cachedAt |-> clock]]_vars

\* an entry exactly 30 minutes old was dropped on mount and replaced by a
\* second fetch, and a later mount, one millisecond before that entry's own
\* expiry, has shown it from the cache
C32_Witness ==
    /\ hook.mounted
    /\ hook.source = "cache"
    /\ ~hook.isLoading
    /\ fetches = 2
    /\ cache.present
    /\ cache.cachedAt = maxAge
    /\ clock = 2 * maxAge - 1

====
